---- MODULE Spec2Model ----
(***************************************************************************)
(* Model of the IV-catheter insertion simulator (src/src/App.tsx and       *)
(* src/src/components/SliderControls.tsx).                                 *)
(*                                                                         *)
(* Lengths are fixed-point integers in units of 0.01 model units, so the   *)
(* needle position (1.5, 1.2, 1.5) is <<150, 120, 150>>, the inner-offset  *)
(* threshold -0.5 is -50 and the slider step 0.01 is 1.  Angles are whole  *)
(* degrees.  Pointer and pinch distances are CSS pixels.                   *)
(*                                                                         *)
(* React state (useState) and refs (useRef) are the variables.  A handler  *)
(* is one atomic action: it reads the state of the render that precedes    *)
(* it.  The props that the frame callback of SimulatorScene closes over    *)
(* are the variable scene.  Under Spec every event is followed at once by  *)
(* the render that refreshes them; under SpecDeferred the render loop may  *)
(* run a frame between an event and that render.                           *)
(*                                                                         *)
(* The geometries that Needle and Arm build once in useMemo(..., []) are   *)
(* the variable memo.  Lathe profiles are in units of 0.001, the forearm   *)
(* taper in units of 0.0001.                                               *)
(***************************************************************************)
EXTENDS Integers, Sequences, FiniteSets

VARIABLES
    phase,             \* useState<Phase>               App.tsx:194
    mode,              \* useState<Mode>                App.tsx:195
    innerOffset,       \* useState(0)                   App.tsx:196
    outerOffset,       \* useState(0)                   App.tsx:197
    needleAngle,       \* useState(DEFAULT_..._DEG)     App.tsx:198
    needlePos,         \* useState(Vector3)             App.tsx:199
    isDragging,        \* useRef(false)                 App.tsx:210
    isOverUI,          \* useRef(false)                 App.tsx:212
    lastPinchDist,     \* useRef<number|null>(null)     App.tsx:213, <<>> is null
    activeTouchCount,  \* useRef(0)                     App.tsx:214
    scene,             \* {phase, needlePos} props of   App.tsx:26-55
                       \* SimulatorScene at its last render
    memo               \* geometries cached by useMemo(..., []) when Needle
                       \* and Arm mount

vars == <<phase, mode, innerOffset, outerOffset, needleAngle, needlePos,
          isDragging, isOverUI, lastPinchDist, activeTouchCount>>

refs == <<isDragging, isOverUI, lastPinchDist, activeTouchCount>>

allVars == <<vars, scene, memo>>

\* phase={phase} needlePos={needlePos} handed to SimulatorScene by a render.
SceneProps == [phase |-> phase, needlePos |-> needlePos]

-----------------------------------------------------------------------------
(* Program constants *)

Phase == {"pre-puncture", "punctured", "advancing", "completed"}
Mode == {"camera", "needle"}

DEFAULT_NEEDLE_ANGLE_DEG == 15
MinAngle == 5
MaxAngle == 45
AngleStep == 5

InitialNeedlePosNearVein == [x |-> 0, y |-> -50, z |-> 30]
InitialNeedlePos == [x |-> 150, y |-> 120, z |-> 150]
veinWorldApprox == [x |-> 0, y |-> -78, z |-> 30]
PunctureRadius == 50

MinX == -500
MaxX == 500
MinY == -150
MaxY == 400
MinZ == -50
MaxZ == 300

InnerRetractThreshold == -50
InnerFullThreshold == -250
OuterAdvanceThreshold == 120

InnerSliderMin == -350
OuterSliderMax == 150

-----------------------------------------------------------------------------
(* Bounds and input sets of the model *)

\* Largest number of simultaneous touch points considered.
MaxTouches == 2

\* Number of equal steps of t in [0, 1] at which the forearm taper is sampled.
TaperSamples == 96

\* Values the inner range input (min -3.5, max 0, step 0.01) delivers.
InnerSliderValues ==
    {0, InnerRetractThreshold, InnerRetractThreshold - 1,
     InnerFullThreshold, InnerFullThreshold - 1, InnerSliderMin}

\* Values the outer range input (min 0, max 1.5, step 0.01) delivers.
OuterSliderValues ==
    {0, OuterAdvanceThreshold, OuterAdvanceThreshold + 1, OuterSliderMax}

\* Values a caller can pass to handleInnerChange and handleOuterChange
\* (value: number): those of the range inputs and some outside their range.
InnerCommandValues == InnerSliderValues \cup {InnerSliderMin - 50, 50}
OuterCommandValues == OuterSliderValues \cup {-50, OuterSliderMax + 50}

\* Pointer movements <<dx, dy>> in pixels between two pointermove events
\* (e.clientX - lastPointer.x, e.clientY - lastPointer.y).
DragDeltas == {<<-500, 0>>, <<500, 0>>, <<9850, 0>>, <<0, 198>>, <<0, -10000>>}

\* Camera bases <<right, up>> that extractBasis can return: the camera on the
\* +z axis (right = +x, up = +y) and on the +x axis (right = -z, up = +y).
CameraBases ==
    { [right |-> [x |-> 1, y |-> 0, z |-> 0], up |-> [x |-> 0, y |-> 1, z |-> 0]],
      [right |-> [x |-> 0, y |-> 0, z |-> -1], up |-> [x |-> 0, y |-> 1, z |-> 0]] }

\* e.deltaY of wheel events.
WheelDeltaYs == {350, -5000}

\* Distances in pixels between the two fingers of a pinch.
PinchDists == {100, 240}

-----------------------------------------------------------------------------
(* Pure helpers *)

Min(a, b) == IF a < b THEN a ELSE b
Max(a, b) == IF a > b THEN a ELSE b

\* Math.max(lo, Math.min(hi, v))
ClampNoUpper(lo, hi, v) == Max(lo, v)
Clamp(lo, hi, v) == Max(lo, Min(hi, v))

\* The range limit of handlePointerMove.
ClampPos(p) ==
    [x |-> Clamp(MinX, MaxX, p.x),
     y |-> Clamp(MinY, MaxY, p.y),
     z |-> Clamp(MinZ, MaxZ, p.z)]

\* Vector3.addScaledVector(v, s)
AddScaledVector(p, v, s) ==
    [x |-> p.x + v.x * s, y |-> p.y + v.y * s, z |-> p.z + v.z * s]

\* Squared Vector3.distanceTo
DistanceToSquared(p, q) ==
    (p.x - q.x) * (p.x - q.x) + (p.y - q.y) * (p.y - q.y) + (p.z - q.z) * (p.z - q.z)

\* dist < 0.5 in useFrame, compared on the squares.
WithinPunctureRadiusInclusive(p) ==
    DistanceToSquared(p, veinWorldApprox) <= PunctureRadius * PunctureRadius
WithinPunctureRadius(p) ==
    DistanceToSquared(p, veinWorldApprox) < PunctureRadius * PunctureRadius

\* delta = e.deltaY * -0.002, in units of 0.01
WheelDelta(deltaY) == (deltaY * (-2)) \div 10

\* delta = (dist - lastPinchDist.current) * 0.005, in units of 0.01
PinchDelta(dist, last) == ((dist - last) * 5) \div 10

-----------------------------------------------------------------------------
(* The device model of Needle *)

\* A lathe profile is the sequence of the points pushed before the call of
\* new THREE.LatheGeometry(points, 24); a point Vector2(radius, height) is
\* <<radius, height>> in units of 0.001.
\* The stylet shaft, tip at height 0 (Needle.tsx).
innerNeedleGeometry ==
    <<<<0, 0>>, <<8, 30>>, <<14, 80>>, <<16, 120>>, <<16, 150>>,
      <<16, 3200>>, <<20, 3250>>, <<22, 3300>>, <<0, 3300>>>>

\* The stylet hub with the flashback chamber (Needle.tsx).
innerHubGeometry ==
    <<<<0, 0>>, <<40, 20>>, <<50, 50>>, <<60, 120>>, <<65, 200>>,
      <<65, 350>>, <<60, 380>>, <<55, 420>>, <<60, 480>>, <<60, 1100>>,
      <<55, 1150>>, <<58, 1200>>, <<65, 1300>>, <<65, 1800>>, <<55, 1850>>,
      <<45, 1900>>, <<0, 1900>>>>

\* The catheter tube merging into its hub (Needle.tsx).
outerGeometryOpenEnd ==
    <<<<0, 0>>, <<24, 20>>, <<25, 50>>, <<25, 2100>>, <<30, 2150>>,
      <<45, 2250>>, <<60, 2350>>, <<65, 2400>>, <<65, 3200>>>>
outerGeometry ==
    <<<<0, 0>>, <<24, 20>>, <<25, 50>>, <<25, 2100>>, <<30, 2150>>,
      <<45, 2250>>, <<60, 2350>>, <<65, 2400>>, <<65, 3200>>, <<0, 3200>>>>

\* The stylet hub and the catheter hub of the first revision of Needle.
innerHubGeometryFirst ==
    <<<<0, 0>>, <<40, 0>>, <<50, 30>>, <<55, 80>>, <<55, 500>>, <<50, 520>>,
      <<45, 550>>, <<40, 600>>, <<40, 1200>>, <<45, 1250>>, <<50, 1300>>,
      <<0, 1300>>>>

outerHubGeometryFirst ==
    <<<<0, 0>>, <<35, 0>>, <<60, 40>>, <<65, 100>>, <<65, 350>>, <<60, 380>>,
      <<55, 420>>, <<45, 550>>, <<40, 600>>, <<0, 600>>>>

\* The stylet hub and the catheter of the second revision of Needle.
innerHubGeometrySecond ==
    <<<<0, 0>>, <<35, 20>>, <<40, 50>>, <<48, 120>>, <<48, 350>>,
      <<44, 380>>, <<40, 420>>, <<42, 480>>, <<42, 1100>>, <<38, 1150>>,
      <<40, 1200>>, <<50, 1300>>, <<55, 1500>>, <<55, 1800>>, <<48, 1850>>,
      <<40, 1900>>, <<0, 1900>>>>

outerGeometrySecond ==
    <<<<0, 0>>, <<24, 20>>, <<25, 50>>, <<25, 2200>>, <<30, 2250>>,
      <<45, 2350>>, <<60, 2450>>, <<65, 2500>>, <<65, 2850>>, <<55, 2900>>,
      <<45, 2950>>, <<40, 3050>>, <<40, 3150>>, <<0, 3150>>>>

\* <group position={position} rotation={rotation}> of Needle: the position
\* is needlePos and the rotation is Euler(0, 0, -(Math.PI / 2) + angleRad),
\* here the angle about z in degrees.
NeedleGroup == [position |-> needlePos, rotationZ |-> needleAngle - 90]

\* The two child groups of Needle, in units of 0.01 along the local axes:
\* <group position={[0, -innerOffset, 0]}> and
\* <group position={[0, -outerOffset, 0]}>.  The second revision of Needle
\* has [0, innerOffset, 0] and [0, outerOffset, 0].
innerGroupPositionSecond == [x |-> 0, y |-> innerOffset, z |-> 0]
innerGroupPosition == [x |-> 0, y |-> -innerOffset, z |-> 0]
outerGroupPositionSecond == [x |-> 0, y |-> outerOffset, z |-> 0]
outerGroupPosition == [x |-> 0, y |-> -outerOffset, z |-> 0]

\* <mesh geometry={outerGeometry} position={[0, 0.15, 0]}> in the outer group.
outerMeshPosition == [x |-> 0, y |-> 15, z |-> 0]

\* The tips of the stylet and of the catheter along the local y axis of the
\* device, in units of 0.01: the first point of the mounted profile, moved by
\* the mesh position and the group position.  The hub is towards +y.
styletTipY == innerGroupPosition.y + memo.innerNeedleGeometry[1][2] \div 10
catheterTipY ==
    outerGroupPosition.y + outerMeshPosition.y + memo.outerGeometry[1][2] \div 10

\* showFlashback={phase === 'punctured'} handed to Needle by SimulatorScene,
\* whose phase is the prop of its last render; it selects the colour of the
\* stylet-hub material.
showFlashbackAfterPuncture == scene.phase # "pre-puncture"
showFlashback == scene.phase = "punctured"

\* {phase === 'punctured' && <div ... animate-pulse />} of App.
FlashbackOverlayRendered == phase = "punctured"

\* Every profile a revision of Needle hands to LatheGeometry.
LatheProfiles ==
    {innerNeedleGeometry, innerHubGeometry, outerGeometry,
     innerHubGeometryFirst, outerHubGeometryFirst,
     innerHubGeometrySecond, outerGeometrySecond}

-----------------------------------------------------------------------------
(* The forearm model of Arm *)

lengthSegments == 48
wristRadius == 4500
elbowRadius == 9500

\* Math.PI and Math.PI * 0.85 in units of 0.0001.
Pi == 31416
BulgeArc == 26704

\* Math.sin on [0, Math.PI / 2] by its Taylor polynomial of degree 9, argument
\* and value in units of 0.0001; the error is below 0.0005.
SinTaylor(y) ==
    LET y2 == (y * y) \div 10000
        y3 == (y2 * y) \div 10000
        y5 == (y3 * y2) \div 10000
        y7 == ((y5 \div 10) * y2) \div 1000
        y9 == ((y7 \div 100) * y2) \div 100
    IN  y - (y3 \div 6) + (y5 \div 120) - (y7 \div 5040) + (y9 \div 362880)

\* Math.sin on [0, Math.PI]: sin(x) = sin(Math.PI - x).
Sin(x) == IF 2 * x > Pi THEN SinTaylor(Pi - x) ELSE SinTaylor(x)

\* The taper of the vertex loop of armGeometry at t = row / rows
\* (t = (y + length / 2) / length, 0 at the wrist and 1 at the elbow).
taperSwapped(row, rows) ==
    LET muscleBulge == (Sin((BulgeArc * row) \div rows) * 12) \div 100
    IN  wristRadius + ((wristRadius - elbowRadius) * row) \div rows + muscleBulge
taper(row, rows) ==
    LET muscleBulge == (Sin((BulgeArc * row) \div rows) * 12) \div 100
    IN  wristRadius + ((elbowRadius - wristRadius) * row) \div rows + muscleBulge

\* taper = 0.65 + t * 0.45 of the first revision of Arm.
taperFirst(row, rows) == 6500 + (4500 * row) \div rows

\* The taper at t = 0, 1 / TaperSamples, ..., 1.
taperSamples == [k \in 0..TaperSamples |-> taper(k, TaperSamples)]

\* <group rotation={[0, 0, Math.PI / 2]} position={[0, -0.8, 0]}> of Arm maps
\* a point of the arm model to world space: a quarter turn about z, then the
\* translation.  Units of 0.01.
armGroupPosition == [x |-> 0, y |-> -80, z |-> 0]
ArmGroupToWorld(p) ==
    [x |-> -p.y + armGroupPosition.x,
     y |-> p.x + armGroupPosition.y,
     z |-> p.z + armGroupPosition.z]

\* <group position={[0.02, 0, 0.30]}> of PunctureGuide; [0.02, 0, 0.55] in
\* the first revision of Arm.
PunctureGuidePositionFirst == [x |-> 2, y |-> 0, z |-> 55]
PunctureGuidePosition == [x |-> 2, y |-> 0, z |-> 30]

\* The control points of the CatmullRomCurve3 of Vein.
veinCurve ==
    << [x |-> -8, y |-> -600, z |-> 20], [x |-> -5, y |-> -400, z |-> 23],
       [x |-> -3, y |-> -200, z |-> 27], [x |-> 0, y |-> -50, z |-> 29],
       [x |-> 2, y |-> 0, z |-> 30], [x |-> 3, y |-> 50, z |-> 31],
       [x |-> 5, y |-> 200, z |-> 33], [x |-> 8, y |-> 300, z |-> 35],
       [x |-> 10, y |-> 450, z |-> 38], [x |-> 12, y |-> 600, z |-> 40] >>

-----------------------------------------------------------------------------
Init ==
    /\ phase = "pre-puncture"
    /\ mode = "camera"
    /\ innerOffset = 0
    /\ outerOffset = 0
    /\ needleAngle = DEFAULT_NEEDLE_ANGLE_DEG
    /\ needlePos = InitialNeedlePos
    /\ isDragging = FALSE
    /\ isOverUI = FALSE
    /\ lastPinchDist = <<>>
    /\ activeTouchCount = 0
    /\ scene = SceneProps
    /\ memo = [innerNeedleGeometry |-> innerNeedleGeometry,
               innerHubGeometry |-> innerHubGeometry,
               outerGeometry |-> outerGeometry,
               armTaper |-> [row \in 0..lengthSegments |->
                               taper(row, lengthSegments)],
               veinCurve |-> veinCurve]

-----------------------------------------------------------------------------
(* Handlers of App *)

\* The React state of App as one value, and the setState calls that store one.
State ==
    [phase |-> phase, mode |-> mode, innerOffset |-> innerOffset,
     outerOffset |-> outerOffset, needleAngle |-> needleAngle,
     needlePos |-> needlePos]
SetState(s) ==
    /\ phase' = s.phase
    /\ mode' = s.mode
    /\ innerOffset' = s.innerOffset
    /\ outerOffset' = s.outerOffset
    /\ needleAngle' = s.needleAngle
    /\ needlePos' = s.needlePos

handlePointerDown ==
    /\ IF mode # "needle" \/ phase # "pre-puncture" \/ isOverUI
          THEN UNCHANGED isDragging
          ELSE isDragging' = TRUE
    /\ UNCHANGED <<phase, mode, innerOffset, outerOffset, needleAngle, needlePos,
                   isOverUI, lastPinchDist, activeTouchCount>>

handlePointerMove(dx, dy, camera) ==
    /\ IF ~isDragging \/ mode # "needle" \/ phase # "pre-puncture"
             \/ activeTouchCount > 1
          THEN UNCHANGED needlePos
          ELSE needlePos' =
                 ClampPos(AddScaledVector(
                     AddScaledVector(needlePos, camera.right, dx),
                     camera.up, -dy))
    /\ UNCHANGED <<phase, mode, innerOffset, outerOffset, needleAngle, refs>>

handlePointerUp ==
    /\ isDragging' = FALSE
    /\ UNCHANGED <<phase, mode, innerOffset, outerOffset, needleAngle, needlePos,
                   isOverUI, lastPinchDist, activeTouchCount>>

handleWheelAnyMode(deltaY) ==
    /\ needlePos' =
         [needlePos EXCEPT !.z = Clamp(MinZ, MaxZ, @ + WheelDelta(deltaY))]
    /\ UNCHANGED <<phase, mode, innerOffset, outerOffset, needleAngle, refs>>

handleWheel(deltaY) ==
    /\ IF mode # "needle"
          THEN UNCHANGED needlePos
          ELSE needlePos' =
                 [needlePos EXCEPT !.z = Clamp(MinZ, MaxZ, @ + WheelDelta(deltaY))]
    /\ UNCHANGED <<phase, mode, innerOffset, outerOffset, needleAngle, refs>>

\* touches is e.touches.length, dist the distance between the first two touches.
handleTouchStart(touches, dist) ==
    /\ activeTouchCount' = touches
    /\ IF mode = "needle" /\ phase = "pre-puncture" /\ touches = 2
          THEN /\ isDragging' = FALSE
               /\ lastPinchDist' = <<dist>>
          ELSE UNCHANGED <<isDragging, lastPinchDist>>
    /\ UNCHANGED <<phase, mode, innerOffset, outerOffset, needleAngle, needlePos,
                   isOverUI>>

handleTouchMove(touches, dist) ==
    /\ IF mode = "needle" /\ phase = "pre-puncture"
             /\ touches = 2 /\ lastPinchDist # <<>>
          THEN /\ lastPinchDist' = <<dist>>
               /\ needlePos' =
                    [needlePos EXCEPT
                       !.z = Clamp(MinZ, MaxZ, @ - PinchDelta(dist, lastPinchDist[1]))]
          ELSE UNCHANGED <<lastPinchDist, needlePos>>
    /\ UNCHANGED <<phase, mode, innerOffset, outerOffset, needleAngle,
                   isDragging, isOverUI, activeTouchCount>>

handleTouchEnd(touches) ==
    /\ activeTouchCount' = touches
    /\ IF touches < 2
          THEN lastPinchDist' = <<>>
          ELSE UNCHANGED lastPinchDist
    /\ UNCHANGED <<phase, mode, innerOffset, outerOffset, needleAngle, needlePos,
                   isDragging, isOverUI>>

\* onPuncture of the render that created the frame callback: its phase is
\* the phase of that render.
handlePunctureKeepsMode ==
    /\ IF scene.phase = "pre-puncture"
          THEN phase' = "punctured"
          ELSE UNCHANGED phase
    /\ UNCHANGED <<mode, innerOffset, outerOffset, needleAngle, needlePos, refs>>
handlePuncture ==
    /\ IF scene.phase = "pre-puncture"
          THEN /\ phase' = "punctured"
               /\ mode' = "camera"
          ELSE UNCHANGED <<phase, mode>>
    /\ UNCHANGED <<innerOffset, outerOffset, needleAngle, needlePos, refs>>

handleInnerChangeInclusive(value) ==
    /\ innerOffset' = value
    /\ IF value <= InnerRetractThreshold /\ phase = "punctured"
          THEN phase' = "advancing"
          ELSE UNCHANGED phase
    /\ UNCHANGED <<mode, outerOffset, needleAngle, needlePos, refs>>

\* The state handleInnerChange(value) leaves when it runs in state s.
AfterInnerChangeNoAdvance(s, value) ==
    [s EXCEPT !.innerOffset = value]
AfterInnerChangeRelative(s, value) ==
    [s EXCEPT !.innerOffset = @ + value,
              !.phase = IF value < InnerRetractThreshold /\ s.phase = "punctured"
                           THEN "advancing"
                           ELSE @]
AfterInnerChange(s, value) ==
    [s EXCEPT !.innerOffset = value,
              !.phase = IF value < InnerRetractThreshold /\ s.phase = "punctured"
                           THEN "advancing"
                           ELSE @]

handleInnerChange(value) ==
    /\ SetState(AfterInnerChange(State, value))
    /\ UNCHANGED refs

handleOuterChangeAlone(value) ==
    /\ outerOffset' = value
    /\ IF value > OuterAdvanceThreshold
          THEN phase' = "completed"
          ELSE UNCHANGED phase
    /\ UNCHANGED <<mode, innerOffset, needleAngle, needlePos, refs>>

\* The state handleOuterChange(value) leaves when it runs in state s.
AfterOuterChangeBelowRange(s, value) ==
    [s EXCEPT !.outerOffset = value,
              !.phase = IF value > OuterAdvanceThreshold
                             /\ s.innerOffset < InnerSliderMin
                           THEN "completed"
                           ELSE @]
AfterOuterChangeLinked(s, value) ==
    [s EXCEPT !.outerOffset = value,
              !.innerOffset = Min(@, -value),
              !.phase = IF value > OuterAdvanceThreshold
                             /\ s.innerOffset < InnerFullThreshold
                           THEN "completed"
                           ELSE @]
AfterOuterChange(s, value) ==
    [s EXCEPT !.outerOffset = value,
              !.phase = IF value > OuterAdvanceThreshold
                             /\ s.innerOffset < InnerFullThreshold
                           THEN "completed"
                           ELSE @]

handleOuterChange(value) ==
    /\ SetState(AfterOuterChange(State, value))
    /\ UNCHANGED refs

handleResetKeepsAngle ==
    /\ phase' = "pre-puncture"
    /\ mode' = "camera"
    /\ innerOffset' = 0
    /\ outerOffset' = 0
    /\ needlePos' = InitialNeedlePos
    /\ UNCHANGED <<needleAngle, refs>>

\* The state handleReset leaves when it runs in state s.
AfterResetOnePhaseBack(s) ==
    [phase |-> CASE s.phase = "completed" -> "advancing"
                 [] s.phase = "advancing" -> "punctured"
                 [] OTHER -> "pre-puncture",
     mode |-> "camera",
     innerOffset |-> 0,
     outerOffset |-> 0,
     needleAngle |-> DEFAULT_NEEDLE_ANGLE_DEG,
     needlePos |-> InitialNeedlePos]
AfterReset(s) ==
    [phase |-> "pre-puncture",
     mode |-> "camera",
     innerOffset |-> 0,
     outerOffset |-> 0,
     needleAngle |-> DEFAULT_NEEDLE_ANGLE_DEG,
     needlePos |-> InitialNeedlePos]

handleReset ==
    /\ SetState(AfterReset(State))
    /\ UNCHANGED refs

\* The per-frame callback of SimulatorScene; phase and needlePos are the
\* props of the render that created the callback.
useFrameAnyPhase ==
    IF WithinPunctureRadius(scene.needlePos)
       THEN /\ phase' = "punctured"
            /\ mode' = "camera"
            /\ UNCHANGED <<innerOffset, outerOffset, needleAngle, needlePos, refs>>
       ELSE UNCHANGED vars
useFrame ==
    IF scene.phase # "pre-puncture"
       THEN UNCHANGED vars
       ELSE IF WithinPunctureRadius(scene.needlePos)
               THEN handlePuncture
               ELSE UNCHANGED vars

-----------------------------------------------------------------------------
(* Events the rendered interface can deliver *)

\* The render loop runs a frame.
Tick == useFrame

\* Pointer and touch events on the canvas container.
PointerDown == handlePointerDown
PointerMove ==
    \E d \in DragDeltas, camera \in CameraBases : handlePointerMove(d[1], d[2], camera)
PointerUp == handlePointerUp
Wheel == \E deltaY \in WheelDeltaYs : handleWheel(deltaY)
TouchStart ==
    /\ activeTouchCount < MaxTouches
    /\ \E dist \in PinchDists : handleTouchStart(activeTouchCount + 1, dist)
TouchMove ==
    /\ activeTouchCount > 0
    /\ \E dist \in PinchDists : handleTouchMove(activeTouchCount, dist)
TouchEnd ==
    /\ activeTouchCount > 0
    /\ handleTouchEnd(activeTouchCount - 1)

\* onPointerEnter / onPointerLeave of the right-hand control panel.
PanelPointerEnter ==
    /\ isOverUI' = TRUE
    /\ UNCHANGED <<phase, mode, innerOffset, outerOffset, needleAngle, needlePos,
                   isDragging, lastPinchDist, activeTouchCount>>
PanelPointerLeave ==
    /\ isOverUI' = FALSE
    /\ UNCHANGED <<phase, mode, innerOffset, outerOffset, needleAngle, needlePos,
                   isDragging, lastPinchDist, activeTouchCount>>

\* The two mode buttons, always rendered.
ClickCamera ==
    /\ mode' = "camera"
    /\ UNCHANGED <<phase, innerOffset, outerOffset, needleAngle, needlePos, refs>>
ClickNeedle ==
    /\ mode' = "needle"
    /\ UNCHANGED <<phase, innerOffset, outerOffset, needleAngle, needlePos, refs>>

\* The angle panel is rendered only in needle mode before the puncture.
AnglePanelRendered == mode = "needle" /\ phase = "pre-puncture"
AngleUpUnclamped ==
    /\ AnglePanelRendered
    /\ needleAngle' = needleAngle + AngleStep
    /\ UNCHANGED <<phase, mode, innerOffset, outerOffset, needlePos, refs>>
AngleUp ==
    /\ AnglePanelRendered
    /\ needleAngle' = Min(MaxAngle, needleAngle + AngleStep)
    /\ UNCHANGED <<phase, mode, innerOffset, outerOffset, needlePos, refs>>
AngleDown ==
    /\ AnglePanelRendered
    /\ needleAngle' = Max(MinAngle, needleAngle - AngleStep)
    /\ UNCHANGED <<phase, mode, innerOffset, outerOffset, needlePos, refs>>

\* SliderControls renders nothing before the puncture and disables both
\* range inputs once the phase is completed.
SlidersRenderedAlways == TRUE
SlidersRendered == phase # "pre-puncture"
SlidersEnabled == phase # "completed"
SliderInner ==
    /\ SlidersRendered /\ SlidersEnabled
    /\ \E value \in InnerSliderValues : handleInnerChange(value)
SliderOuter ==
    /\ SlidersRendered /\ SlidersEnabled
    /\ \E value \in OuterSliderValues : handleOuterChange(value)
ClickReset ==
    /\ SlidersRendered
    /\ handleReset

\* The event and the render it schedules happen before anything else runs.
Committed(event) == event /\ scene' = SceneProps' /\ UNCHANGED memo

Next ==
    \/ Committed(Tick)
    \/ Committed(PointerDown)
    \/ Committed(PointerMove)
    \/ Committed(PointerUp)
    \/ Committed(Wheel)
    \/ Committed(TouchStart)
    \/ Committed(TouchMove)
    \/ Committed(TouchEnd)
    \/ Committed(PanelPointerEnter)
    \/ Committed(PanelPointerLeave)
    \/ Committed(ClickCamera)
    \/ Committed(ClickNeedle)
    \/ Committed(AngleUp)
    \/ Committed(AngleDown)
    \/ Committed(SliderInner)
    \/ Committed(SliderOuter)
    \/ Committed(ClickReset)

Spec == Init /\ [][Next]_allVars

\* A render is pending while the props of SimulatorScene lag the state.
RenderPending == scene # SceneProps

\* The pending render commits: SimulatorScene receives the current props.
RenderScene ==
    /\ RenderPending
    /\ scene' = SceneProps
    /\ UNCHANGED <<vars, memo>>

\* An input event is handled once no render is pending; its own render is
\* left pending.
Deferred(event) == ~RenderPending /\ event /\ UNCHANGED <<scene, memo>>

\* The render loop is driven by requestAnimationFrame, not by React: a frame
\* can run while a render is pending.
FrameBeforeRender == Tick /\ UNCHANGED <<scene, memo>>

NextDeferred ==
    \/ FrameBeforeRender
    \/ RenderScene
    \/ Deferred(PointerDown)
    \/ Deferred(PointerMove)
    \/ Deferred(PointerUp)
    \/ Deferred(Wheel)
    \/ Deferred(TouchStart)
    \/ Deferred(TouchMove)
    \/ Deferred(TouchEnd)
    \/ Deferred(PanelPointerEnter)
    \/ Deferred(PanelPointerLeave)
    \/ Deferred(ClickCamera)
    \/ Deferred(ClickNeedle)
    \/ Deferred(AngleUp)
    \/ Deferred(AngleDown)
    \/ Deferred(SliderInner)
    \/ Deferred(SliderOuter)
    \/ Deferred(ClickReset)

SpecDeferred == Init /\ [][NextDeferred]_allVars

-----------------------------------------------------------------------------
TypeOK ==
    /\ phase \in Phase
    /\ mode \in Mode
    /\ innerOffset \in InnerSliderValues
    /\ outerOffset \in OuterSliderValues
    /\ needleAngle \in Int
    /\ needlePos \in [x : Int, y : Int, z : Int]
    /\ isDragging \in BOOLEAN
    /\ isOverUI \in BOOLEAN
    /\ activeTouchCount \in 0..MaxTouches
    /\ lastPinchDist \in {<<>>} \cup {<<d>> : d \in PinchDists}
    /\ scene \in [phase : Phase, needlePos : [x : Int, y : Int, z : Int]]
    /\ DOMAIN memo = {"innerNeedleGeometry", "innerHubGeometry", "outerGeometry",
                      "armTaper", "veinCurve"}

-----------------------------------------------------------------------------
(* Properties *)

PhaseSuccessor(p) ==
    CASE p = "pre-puncture" -> "punctured"
      [] p = "punctured" -> "advancing"
      [] p = "advancing" -> "completed"
      [] OTHER -> p

\* C1: every step other than Reset leaves the phase where it is or moves it
\* to the immediate successor in pre-puncture -> punctured -> advancing ->
\* completed; it never moves backwards and never skips a phase.
C1_PhaseMonotonic ==
    [][ClickReset \/ phase' = phase \/ phase' = PhaseSuccessor(phase)]_vars

\* The stylet has been pushed back above -0.5 and the phase is still advancing.
C1_Witness == phase = "advancing" /\ innerOffset = 0

\* C2: once the phase has left pre-puncture, no step other than Reset changes
\* the needle position or the needle angle.
C2_PoseFrozenAfterPuncture ==
    [][(phase # "pre-puncture" /\ ~ClickReset)
          => (needlePos' = needlePos /\ needleAngle' = needleAngle)]_vars

\* C3: no state has phase advancing with outerOffset > 1.2 and
\* innerOffset < -2.5: the command that establishes both completes the
\* procedure, whichever offset crossed its threshold last.
C3_BothThresholdsComplete ==
    ~(/\ phase = "advancing"
      /\ outerOffset > OuterAdvanceThreshold
      /\ innerOffset < InnerFullThreshold)

\* C4: in pre-puncture a frame moves the phase to punctured exactly when the
\* needle position is strictly closer than 0.5 to the puncture target, and
\* to no other phase; angle and offsets play no part.
C4_PunctureIffWithinRadius ==
    phase = "pre-puncture" =>
        /\ (ENABLED (useFrame /\ phase' = "punctured"))
             <=> (DistanceToSquared(needlePos, veinWorldApprox) < 2500)
        /\ ~ENABLED (useFrame /\ phase' \notin {"pre-puncture", "punctured"})

\* A frame has punctured: the phase is punctured with the offsets untouched
\* and the needle within the radius.
C4_Witness ==
    /\ phase = "punctured"
    /\ innerOffset = 0 /\ outerOffset = 0
    /\ DistanceToSquared(needlePos, veinWorldApprox) < 2500

\* C5: completed implies innerOffset < -2.5 and outerOffset > 1.2, and an
\* outer-offset change to a value > 1.2 while innerOffset >= -2.5 leaves the
\* phase unchanged.
C5_OuterAloneNeverCompletes ==
    /\ phase = "completed" => (innerOffset < -250 /\ outerOffset > 120)
    /\ \A value \in OuterSliderValues :
         (value > 120 /\ innerOffset >= -250)
            => ~ENABLED (handleOuterChange(value) /\ phase' # phase)

\* The catheter was advanced past 1.2 with the stylet not below -2.5 and the
\* phase is still advancing.
C5_Witness ==
    phase = "advancing" /\ outerOffset > 120 /\ innerOffset >= -250

\* C6: an inner-offset or outer-offset command handled while the phase is
\* pre-puncture or completed changes nothing.
C6_OffsetCommandsGated ==
    phase \in {"pre-puncture", "completed"} =>
        /\ \A value \in InnerSliderValues :
             ~ENABLED (handleInnerChange(value) /\ vars' # vars)
        /\ \A value \in OuterSliderValues :
             ~ENABLED (handleOuterChange(value) /\ vars' # vars)

\* C7: in punctured an inner-offset update to a value strictly below -0.5
\* moves the phase to advancing, an update to a value >= -0.5 leaves it
\* punctured, and innerOffset takes the new value either way.
C7_InnerRetractThreshold ==
    phase = "punctured" =>
        \A value \in InnerSliderValues :
            /\ ENABLED handleInnerChange(value)
            /\ ~ENABLED (/\ handleInnerChange(value)
                         /\ ~(/\ innerOffset' = value
                              /\ phase' = IF value < -50 THEN "advancing"
                                                         ELSE "punctured"))

\* The stylet was set to exactly -0.5 and the phase is still punctured.
C7_Witness == phase = "punctured" /\ innerOffset = -50

\* C8: Reset, from every reachable state, yields phase pre-puncture, both
\* offsets 0, the needle at (1.5, 1.2, 1.5) and the angle at 15 degrees.
C8_ResetRestoresInitialState ==
    /\ ENABLED handleReset
    /\ ~ENABLED (/\ handleReset
                 /\ ~(/\ phase' = "pre-puncture"
                      /\ innerOffset' = 0
                      /\ outerOffset' = 0
                      /\ needlePos' = [x |-> 150, y |-> 120, z |-> 150]
                      /\ needleAngle' = 15))

\* Reset is offered in a state that differs from the initial one in phase,
\* offsets, position and angle.
C8_Witness ==
    /\ ENABLED ClickReset
    /\ phase = "completed"
    /\ needleAngle # 15
    /\ needlePos # [x |-> 150, y |-> 120, z |-> 150]

\* C9: the needle position always lies in x in [-5, 5], y in [-1.5, 4],
\* z in [-0.5, 3.0]; a drag whose request exceeds a bound is applied and
\* yields exactly that bound.
C9_PositionWithinBounds ==
    /\ -500 <= needlePos.x /\ needlePos.x <= 500
    /\ -150 <= needlePos.y /\ needlePos.y <= 400
    /\ -50 <= needlePos.z /\ needlePos.z <= 300
    /\ (isDragging /\ mode = "needle" /\ phase = "pre-puncture"
          /\ activeTouchCount <= 1) =>
         \A d \in DragDeltas, camera \in CameraBases :
            LET req == AddScaledVector(
                          AddScaledVector(needlePos, camera.right, d[1]),
                          camera.up, -d[2])
            IN  /\ ENABLED handlePointerMove(d[1], d[2], camera)
                /\ ~ENABLED (/\ handlePointerMove(d[1], d[2], camera)
                             /\ ~(/\ req.x > 500 => needlePos'.x = 500
                                  /\ req.x < -500 => needlePos'.x = -500
                                  /\ req.y > 400 => needlePos'.y = 400
                                  /\ req.y < -150 => needlePos'.y = -150
                                  /\ req.z > 300 => needlePos'.z = 300
                                  /\ req.z < -50 => needlePos'.z = -50))

\* The needle sits on the upper x bound and the lower z bound, which only
\* clamped requests reach.
C9_Witness == needlePos.x = 500 /\ needlePos.z = -50

\* C10: the needle angle always lies in [5, 45]; an increment at 45 and a
\* decrement at 5 leave it unchanged; and the angle changes only while the
\* phase is pre-puncture, Reset apart.
C10_AngleWithinRange ==
    /\ [](/\ 5 <= needleAngle /\ needleAngle <= 45
          /\ (AnglePanelRendered /\ needleAngle = 45)
                => ~ENABLED (AngleUp /\ needleAngle' # 45)
          /\ (AnglePanelRendered /\ needleAngle = 5)
                => ~ENABLED (AngleDown /\ needleAngle' # 5))
    /\ [][needleAngle' # needleAngle
            => (phase = "pre-puncture" \/ ClickReset)]_vars

\* The angle was raised to 45 before the puncture and is still 45 at the end.
C10_Witness == needleAngle = 45 /\ phase = "completed"

\* C11: in every reachable state innerOffset lies in [-3.5, 0] and outerOffset
\* in [0, 1.5], and in the phases that accept offset commands a command value
\* outside the domain is stored clamped to the nearest bound.
C11_OffsetsClampedToDomain ==
    /\ innerOffset \in InnerSliderMin..0
    /\ outerOffset \in 0..OuterSliderMax
    /\ phase \in {"punctured", "advancing"} =>
          /\ \A v \in InnerCommandValues :
                /\ ENABLED handleInnerChange(v)
                /\ ~ENABLED (handleInnerChange(v)
                               /\ innerOffset' # Clamp(InnerSliderMin, 0, v))
          /\ \A v \in OuterCommandValues :
                /\ ENABLED handleOuterChange(v)
                /\ ~ENABLED (handleOuterChange(v)
                               /\ outerOffset' # Clamp(0, OuterSliderMax, v))

\* C12: a frame in any phase other than pre-puncture changes nothing (phase,
\* offsets, position, angle, mode and refs), also when the needle position is
\* within 0.5 of the puncture target.
C12_TickInertAfterPuncture ==
    phase # "pre-puncture" =>
        /\ ENABLED useFrame
        /\ ~ENABLED (useFrame /\ vars' # vars)

\* Needle mode was selected again after the puncture, the needle is inside the
\* puncture radius and the phase has moved on.
C12_Witness ==
    /\ phase = "advancing"
    /\ mode = "needle"
    /\ WithinPunctureRadius(needlePos)

\* C13: Reset is idempotent: in every reachable state, a Reset leads to the
\* state that two consecutive Resets lead to, and leaves the refs alone.
C13_ResetIdempotent ==
    /\ AfterReset(AfterReset(State)) = AfterReset(State)
    /\ ENABLED handleReset
    /\ ~ENABLED (handleReset /\ State' # AfterReset(AfterReset(State)))
    /\ ~ENABLED (handleReset /\ refs' # refs)

\* Reset is offered in a state that one Reset changes in phase, mode and
\* offsets.
C13_Witness ==
    /\ ENABLED ClickReset
    /\ phase = "advancing"
    /\ mode = "needle"
    /\ innerOffset = InnerSliderMin
    /\ outerOffset = OuterAdvanceThreshold
    /\ AfterReset(State) # State

\* C14: setting an offset is idempotent: in every reachable state and for
\* every command value v, handleInnerChange(v) leads to the state that two
\* consecutive handleInnerChange(v) lead to, and likewise handleOuterChange(v).
C14_SetOffsetIdempotent ==
    /\ \A v \in InnerCommandValues :
          LET once == AfterInnerChange(State, v)
              twice == AfterInnerChange(once, v)
          IN  /\ twice = once
              /\ ENABLED handleInnerChange(v)
              /\ ~ENABLED (handleInnerChange(v) /\ State' # twice)
    /\ \A v \in OuterCommandValues :
          LET once == AfterOuterChange(State, v)
              twice == AfterOuterChange(once, v)
          IN  /\ twice = once
              /\ ENABLED handleOuterChange(v)
              /\ ~ENABLED (handleOuterChange(v) /\ State' # twice)

\* A state in which the first handleInnerChange(-0.51) changes the phase and
\* the offset, so that the second one runs in another phase.
C14_Witness ==
    /\ phase = "punctured"
    /\ innerOffset = 0
    /\ AfterInnerChange(State, InnerRetractThreshold - 1).phase = "advancing"
    /\ ENABLED SliderInner

\* C15: an inner-offset command never changes outerOffset, an outer-offset
\* command never changes innerOffset, and neither changes the needle position
\* or the needle angle.
C15_OffsetAxesIndependent ==
    /\ \A v \in InnerCommandValues :
          ~ENABLED (handleInnerChange(v)
                     /\ (outerOffset' # outerOffset \/ needlePos' # needlePos
                           \/ needleAngle' # needleAngle))
    /\ \A v \in OuterCommandValues :
          ~ENABLED (handleOuterChange(v)
                     /\ (innerOffset' # innerOffset \/ needlePos' # needlePos
                           \/ needleAngle' # needleAngle))

\* Both sliders have been moved off zero and both still accept input.
C15_Witness ==
    /\ phase = "advancing"
    /\ innerOffset = InnerRetractThreshold
    /\ outerOffset = OuterSliderMax
    /\ ENABLED SliderInner
    /\ ENABLED SliderOuter

\* C16: every profile handed to LatheGeometry starts at radius 0, ends at
\* radius 0, and lists its points by increasing height: the height never
\* decreases from one point to the next.
C16_ProfilesClosedAndOrdered ==
    \A profile \in LatheProfiles \cup
                   {memo.innerNeedleGeometry, memo.innerHubGeometry,
                    memo.outerGeometry} :
        /\ Len(profile) >= 2
        /\ profile[1][1] = 0
        /\ profile[Len(profile)][1] = 0
        /\ \A i \in 1..(Len(profile) - 1) : profile[i][2] <= profile[i + 1][2]

\* The mounted catheter profile rises to the hub radius and is closed at its
\* last height; the device is shown with both parts moved.
C16_Witness ==
    /\ memo.outerGeometry[Len(memo.outerGeometry) - 1] = <<65, 3200>>
    /\ memo.outerGeometry[Len(memo.outerGeometry)] = <<0, 3200>>
    /\ phase = "completed"

\* C17: the forearm taper (wrist radius + linear growth to the elbow radius +
\* sinusoidal muscle bulge) never decreases as t goes from 0 to 1, on the
\* vertex rows of the mounted arm mesh and on TaperSamples equal steps, so
\* that taper(0) <= taper(t) <= taper(1); likewise the linear taper of the
\* first revision.
C17_TaperMonotone ==
    /\ \A row \in 0..(lengthSegments - 1) :
          memo.armTaper[row] <= memo.armTaper[row + 1]
    /\ \A k \in 0..(TaperSamples - 1) :
          /\ taperSamples[k] <= taperSamples[k + 1]
          /\ taperFirst(k, TaperSamples) <= taperFirst(k + 1, TaperSamples)
    /\ \A k \in 0..TaperSamples :
          /\ taperSamples[0] <= taperSamples[k]
          /\ taperSamples[k] <= taperSamples[TaperSamples]

\* The mounted arm starts at the wrist radius and the muscle bulge adds more
\* than 0.1 at mid-forearm, where it is steepest against the linear term
\* towards the elbow.
C17_Witness ==
    /\ memo.armTaper[0] = wristRadius
    /\ memo.armTaper[lengthSegments \div 2]
          > wristRadius + (elbowRadius - wristRadius) \div 2 + 1000
    /\ memo.armTaper[lengthSegments] > elbowRadius

\* C18: there is no race between the distance check and the pose updates:
\* in the state in which the phase becomes punctured the needle position is
\* within 0.5 of the puncture target, because no drag, pinch or wheel update
\* is applied between the check that fired and the phase change.
C18_PunctureStateWithinRadius ==
    [][(phase = "pre-puncture" /\ phase' = "punctured")
          => WithinPunctureRadius(needlePos')]_allVars

\* C19: the world-space target of the distance check is the position of the
\* puncture guide in the arm model mapped through the transform of the arm
\* group (a quarter turn about z, then the translation by (0, -0.8, 0)); the
\* guide position is a control point of the vein curve, and the frame
\* callback punctures exactly within 0.5 of the mapped guide.
C19_TargetIsMappedGuide ==
    LET target == ArmGroupToWorld(PunctureGuidePosition)
    IN  /\ veinWorldApprox = target
        /\ \E i \in 1..Len(memo.veinCurve) :
              memo.veinCurve[i] = PunctureGuidePosition
        /\ scene.phase = "pre-puncture" =>
              ((ENABLED (useFrame /\ phase' = "punctured"))
                 <=> DistanceToSquared(scene.needlePos, target)
                       < PunctureRadius * PunctureRadius)

\* The puncture has fired with the needle 0.2 from the mapped guide.
C19_Witness ==
    /\ phase = "punctured"
    /\ needlePos = [ArmGroupToWorld(PunctureGuidePosition) EXCEPT !.z = @ - 20]

C21_FlashbackIffPunctured ==
    /\ showFlashback <=> phase = "punctured"
    /\ FlashbackOverlayRendered <=> phase = "punctured"
    /\ phase \in {"pre-puncture", "advancing", "completed"} =>
          ~showFlashback /\ ~FlashbackOverlayRendered

\* The flashback is shown after the puncture, with the stylet at the
\* retraction threshold and the phase still punctured.
C21_Witness ==
    /\ phase = "punctured"
    /\ innerOffset = InnerRetractThreshold
    /\ showFlashback
    /\ FlashbackOverlayRendered

\* C22: in every reachable state the phase punctured implies
\* innerOffset >= -0.5, so that no outer-offset command of the slider can
\* complete the procedure while the phase is punctured.
C22_PuncturedInnerAboveThreshold ==
    phase = "punctured" =>
        /\ innerOffset >= InnerRetractThreshold
        /\ ~(innerOffset < InnerFullThreshold)
        /\ \A v \in OuterSliderValues :
              ~ENABLED (handleOuterChange(v) /\ phase' = "completed")

\* Still punctured with the stylet at -0.5 and the catheter fully advanced.
C22_Witness ==
    /\ phase = "punctured"
    /\ innerOffset = InnerRetractThreshold
    /\ outerOffset = OuterSliderMax

\* C23: no dead end: in every reachable state whose phase is punctured or
\* advancing both sliders accept input, and there is an inner slider value
\* and an outer slider value, each different from the current one, such that
\* moving the inner slider and then the outer slider ends in the phase
\* completed, also when outerOffset exceeded 1.2 before the stylet was
\* withdrawn.
C23_CompletedStaysReachable ==
    phase \in {"punctured", "advancing"} =>
        /\ ENABLED SliderInner
        /\ ENABLED SliderOuter
        /\ \E i \in InnerSliderValues \ {innerOffset},
               o \in OuterSliderValues \ {outerOffset} :
              LET withdrawn == AfterInnerChange(State, i)
                  advanced == AfterOuterChange(withdrawn, o)
              IN  /\ ENABLED handleInnerChange(i)
                  /\ ~ENABLED (handleInnerChange(i) /\ State' # withdrawn)
                  /\ withdrawn.phase = "advancing"
                  /\ advanced.phase = "completed"

\* The catheter was advanced beyond 1.2 first and the stylet withdrawn
\* afterwards: both thresholds are met and the phase is still advancing.
C23_Witness ==
    /\ phase = "advancing"
    /\ outerOffset = OuterSliderMax
    /\ innerOffset = InnerSliderMin

\* C24: the initial needle position is at distance >= 0.5 from the puncture
\* target; in the initial state and in the state a Reset leaves, a frame
\* with no pose command in between keeps the phase pre-puncture.
C24_NoPunctureAtInitialPosition ==
    /\ [](/\ DistanceToSquared(AfterReset(State).needlePos, veinWorldApprox)
               >= PunctureRadius * PunctureRadius
          /\ (phase = "pre-puncture" /\ needlePos = InitialNeedlePos) =>
                /\ ENABLED useFrame
                /\ ~ENABLED (useFrame /\ phase' # "pre-puncture"))
    /\ [][ClickReset =>
            /\ phase' = "pre-puncture"
            /\ needlePos' = InitialNeedlePos
            /\ scene'.needlePos = InitialNeedlePos
            /\ ~WithinPunctureRadius(scene'.needlePos)]_allVars

\* Reset is offered while the needle is inside the puncture radius, and the
\* position Reset restores is outside it.
C24_Witness ==
    /\ ENABLED ClickReset
    /\ WithinPunctureRadius(needlePos)
    /\ ~WithinPunctureRadius(AfterReset(State).needlePos)

\* C25: in every reachable state the phase pre-puncture implies
\* innerOffset = 0 and outerOffset = 0.
C25_PrePunctureOffsetsZero ==
    phase = "pre-puncture" => (innerOffset = 0 /\ outerOffset = 0)

\* Before the puncture, with the needle moved and tilted to the largest
\* angle; the sliders are not rendered.
C25_Witness ==
    /\ phase = "pre-puncture"
    /\ ~SlidersRendered
    /\ needlePos # InitialNeedlePos
    /\ needleAngle = MaxAngle
    /\ innerOffset = 0
    /\ outerOffset = 0

\* C26: the step from pre-puncture to punctured sets the mode to camera, and
\* so does Reset: the state right after a puncture or a Reset has
\* mode = camera.
C26_CameraAfterPunctureAndReset ==
    /\ [](/\ phase = "pre-puncture" =>
                ~ENABLED (useFrame /\ phase' = "punctured" /\ mode' # "camera")
          /\ ~ENABLED (handleReset /\ mode' # "camera"))
    /\ [][((phase = "pre-puncture" /\ phase' = "punctured") \/ ClickReset)
            => mode' = "camera"]_allVars

\* In needle mode, before the puncture, with the needle inside the puncture
\* radius: the next frame punctures.
C26_Witness ==
    /\ phase = "pre-puncture"
    /\ mode = "needle"
    /\ ENABLED (useFrame /\ phase' = "punctured")

\* C27: while the mode is camera no drag, pinch or wheel input changes the
\* needle position, in any phase.
C27_CameraModeKeepsPosition ==
    mode = "camera" =>
        /\ \A d \in DragDeltas, camera \in CameraBases :
              ~ENABLED (handlePointerMove(d[1], d[2], camera)
                         /\ needlePos' # needlePos)
        /\ \A deltaY \in WheelDeltaYs :
              ~ENABLED (handleWheel(deltaY) /\ needlePos' # needlePos)
        /\ \A touches \in 0..MaxTouches, dist \in PinchDists :
              ~ENABLED (handleTouchMove(touches, dist) /\ needlePos' # needlePos)

\* Camera mode was selected before the puncture in the middle of a drag and
\* of a pinch: only the mode keeps the needle still.
C27_Witness ==
    /\ mode = "camera"
    /\ phase = "pre-puncture"
    /\ isDragging
    /\ lastPinchDist # <<>>
    /\ activeTouchCount = 2

\* C28: along the local axis of the device (the tip end has the smaller
\* coordinate) the stylet tip is at -innerOffset and the catheter tip at
\* 0.15 - outerOffset; with both offsets 0, as in the initial state, the
\* stylet tip leads the catheter tip by 0.15, and in every reachable state
\* whose phase is completed the catheter tip is strictly ahead of the
\* stylet tip.
C28_TipPositions ==
    /\ styletTipY = -innerOffset
    /\ catheterTipY = 15 - outerOffset
    /\ (innerOffset = 0 /\ outerOffset = 0) => catheterTipY - styletTipY = 15
    /\ phase = "pre-puncture" => catheterTipY - styletTipY = 15
    /\ phase = "completed" => catheterTipY < styletTipY

\* Completed with both offsets just beyond their thresholds: the catheter
\* tip is at -1.06 and the stylet tip at 2.51.
C28_Witness ==
    /\ phase = "completed"
    /\ outerOffset = OuterAdvanceThreshold + 1
    /\ innerOffset = InnerFullThreshold - 1
    /\ catheterTipY = -106
    /\ styletTipY = 251

====
